---- MODULE Spec2Model ----
(***************************************************************************)
(* A model of spotify/playlist.py (Playlist, PlaylistContainer,            *)
(* PlaylistFolder) and of the parts of the spotify package it calls.       *)
(*                                                                         *)
(* Four specifications share the module:                                   *)
(*   Spec       wrappers and native reference counts                       *)
(*   SpecIndex  indexing a container whose native content changes          *)
(*   SpecLoad   load() on the process-wide condition (LiveLoad adds the    *)
(*              fairness of the threads, the clock and the callback)       *)
(*   SpecAttr   the playlist's attribute getters and setters               *)
(* Each leaves the variables of the others unchanged.                      *)
(***************************************************************************)
EXTENDS Integers, Sequences, FiniteSets

VARIABLES
    refcount,     \* native reference count of each native object
    owned,        \* references the application holds outside any wrapper
    wrappers,     \* the live Playlist / PlaylistContainer objects, counted by kind
    misuse,       \* add_ref=False constructions that were handed a borrowed pointer
    native_pc,    \* what the native container currently reports
    result,       \* outcome of the operation just performed
    loaded,       \* native is-loaded flag (0 or 1) of each native object
    now,          \* the clock
    lock,         \* holder of the lock of the process-wide condition
    cb,           \* the callback thread: idle, or about to signal the condition
    th,           \* the application threads and their load() calls
    native_pl     \* the native playlist's attributes

varsHandle == <<refcount, owned, wrappers, misuse, native_pc, result>>

varsLoad == <<loaded, now, lock, cb, th>>

vars == <<refcount, owned, wrappers, misuse, native_pc, result,
         loaded, now, lock, cb, th, native_pl>>

----------------------------------------------------------------------------
(* Bounds of the model. *)

MaxWrappers == 3   \* wrapper objects alive at a time
MaxOwned == 1      \* references held by the application outside wrappers
MaxMisuse == 1     \* add_ref=False constructions on a borrowed pointer
MaxTag == 3        \* native type tags range over 0..MaxTag
MaxKey == 3        \* integer keys range over -2..MaxKey
NativeRefs == 1    \* references the native library itself keeps on an object
MaxTime == 1       \* the clock runs over 0..MaxTime
MaxTimeout == 1    \* timeouts range over none and 1..MaxTimeout
MaxStatus == 2     \* native status codes range over 0..MaxStatus
MaxOffline == 3    \* native offline statuses range over 0..MaxOffline

----------------------------------------------------------------------------
(* Strings: a text is a sequence of code points, a C string a sequence of  *)
(* bytes.  utils.to_bytes encodes as UTF-8, utils.to_unicode reads the C   *)
(* string up to its first NUL (ffi.string) and decodes it as UTF-8.        *)

Rep(n, c) == [i \in 1..n |-> c]

EncodeChar(cp) ==
    IF cp < 128 THEN <<cp>>
    ELSE IF cp < 2048 THEN <<192 + (cp \div 64), 128 + (cp % 64)>>
    ELSE <<224 + (cp \div 4096), 128 + ((cp \div 64) % 64), 128 + (cp % 64)>>

(* UTF-8 encoding of a text, by halves. *)
RECURSIVE to_bytes(_)
to_bytes(s) ==
    IF s = <<>> THEN <<>>
    ELSE IF Len(s) = 1 THEN EncodeChar(s[1])
    ELSE LET h == Len(s) \div 2
         IN  to_bytes(SubSeq(s, 1, h)) \o to_bytes(SubSeq(s, h + 1, Len(s)))

IsCont(b) == b >= 128 /\ b < 192

(* Bytes a character takes, by its lead byte; 0 for a byte that leads none. *)
CharLen(b) ==
    IF b < 128 THEN 1
    ELSE IF b >= 192 /\ b < 224 THEN 2
    ELSE IF b >= 224 /\ b < 240 THEN 3
    ELSE 0

CodePoint(bs, i) ==
    LET b == bs[i] IN
    IF CharLen(b) = 1 THEN b
    ELSE IF CharLen(b) = 2 THEN (b - 192) * 64 + (bs[i + 1] - 128)
    ELSE (b - 224) * 4096 + (bs[i + 1] - 128) * 64 + (bs[i + 2] - 128)

DecodeError == [ok |-> FALSE, text |-> <<>>]

(* UTF-8 decoding of a few bytes, character by character: a lead byte must *)
(* be followed by the continuation bytes it announces.                     *)
RECURSIVE DecodeChars(_)
DecodeChars(bs) ==
    IF bs = <<>> THEN [ok |-> TRUE, text |-> <<>>]
    ELSE LET n == IF IsCont(bs[1]) THEN 0 ELSE CharLen(bs[1]) IN
         IF n = 0 \/ Len(bs) < n THEN DecodeError
         ELSE IF \E k \in 2..n : ~IsCont(bs[k]) THEN DecodeError
         ELSE LET rest == DecodeChars(SubSeq(bs, n + 1, Len(bs)))
              IN  IF rest.ok
                  THEN [ok |-> TRUE, text |-> <<CodePoint(bs, 1)>> \o rest.text]
                  ELSE DecodeError

(* UTF-8 decoding (a failure is a UnicodeDecodeError).  A long byte string *)
(* is cut at a character boundary near its middle: one of three bytes in a *)
(* row starts a character, or the string is not UTF-8.                     *)
RECURSIVE Utf8Decode(_)
Utf8Decode(bs) ==
    IF Len(bs) <= 4 THEN DecodeChars(bs)
    ELSE LET h == Len(bs) \div 2
             starts == {i \in (h + 1)..(h + 3) : i <= Len(bs) /\ ~IsCont(bs[i])}
         IN  IF starts = {} THEN DecodeError
             ELSE LET m == CHOOSE i \in starts : \A j \in starts : i <= j
                      l == Utf8Decode(SubSeq(bs, 1, m - 1))
                      r == Utf8Decode(SubSeq(bs, m, Len(bs)))
                  IN  IF l.ok /\ r.ok
                      THEN [ok |-> TRUE, text |-> l.text \o r.text]
                      ELSE DecodeError

(* The bytes of a char array up to, not including, its first NUL. *)
ffi_string(bs) ==
    LET nuls == {i \in 1..Len(bs) : bs[i] = 0}
    IN  IF nuls = {} THEN bs
        ELSE SubSeq(bs, 1, (CHOOSE i \in nuls : \A j \in nuls : i <= j) - 1)

to_unicode(bs) == Utf8Decode(ffi_string(bs))

(* ffi.new('char[]', bytes): the bytes followed by a terminating NUL. *)
ffi_new_chars(bs) == bs \o <<0>>

----------------------------------------------------------------------------
(* Enumerations filled in from the native header by utils.make_enum. *)

PLAYLIST == 0
START_FOLDER == 1
END_FOLDER == 2

----------------------------------------------------------------------------
(* Native objects. *)

Playlists == {"p1", "p2"}
Container == "pc"
NativeObjs == Playlists \cup {Container}

(* The live wrapper objects are counted by what they are: their class,   *)
(* the native object they point to, and the number of ffi.gc destructors   *)
(* (native releases) that run when they are collected.                     *)
Kinds ==
    [cls : {"Playlist"}, ptr : Playlists, releases : {1, 2}]
    \cup {[cls |-> "PlaylistContainer", ptr |-> Container, releases |-> 1]}

KindsOn(o) == {k \in Kinds : k.ptr = o}

RECURSIVE Sum(_, _)
Sum(f, S) ==
    IF S = {} THEN 0
    ELSE LET x == CHOOSE y \in S : TRUE
         IN  f[x] + Sum(f, S \ {x})

(* Number of live wrappers, and of live wrappers aliasing native object o. *)
LiveCount == Sum(wrappers, Kinds)

LiveOn(o) == Sum(wrappers, KindsOn(o))

(* References the live wrappers on o will release. *)
HeldOn(o) == Sum([k \in Kinds |-> wrappers[k] * k.releases], KindsOn(o))

NoResult == [op |-> "none"]


None == "None"

----------------------------------------------------------------------------
(* The native playlist container: the length it reports (-1 when it does   *)
(* not know it) and its entries, each with a type tag, a playlist pointer, *)
(* a folder id and a folder name.                                          *)

Item(p) == [type |-> PLAYLIST, ptr |-> p, id |-> 0, name |-> <<>>]

Folder(t, i, n) == [type |-> t, ptr |-> None, id |-> i, name |-> n]

Other(t) == [type |-> t, ptr |-> None, id |-> 0, name |-> <<>>]

Rock == <<82, 111, 99, 107>>

Scenario == <<Item("p1"), Folder(START_FOLDER, 7, Rock), Item("p2")>>

Known(es) == [num |-> Len(es), entries |-> es]

NativeContainers ==
    {[num |-> -1, entries |-> <<>>],
     [num |-> -1, entries |-> Scenario],
     Known(<<>>),
     Known(Scenario),
     Known(<<Folder(START_FOLDER, 8, Rep(99, 97)), Folder(END_FOLDER, 8, <<>>)>>),
     Known(<<Folder(END_FOLDER, 9, Rep(100, 97)), Item("p1"), Item("p1")>>),
     Known(<<Folder(START_FOLDER, 10, Rep(98, 97) \o <<233>>)>>)}
    \cup {Known(<<Other(t)>>) : t \in 3..MaxTag}

sp_playlistcontainer_num_playlists == native_pc.num

(* The entry the native accessors read at index i; an index the container *)
(* does not hold reads as a playlist entry with a NULL pointer.            *)
NativeEntry(i) ==
    IF i + 1 \in DOMAIN native_pc.entries THEN native_pc.entries[i + 1]
    ELSE Item(None)

sp_playlistcontainer_playlist_type(i) == NativeEntry(i).type

sp_playlistcontainer_playlist(i) == NativeEntry(i).ptr

sp_playlistcontainer_playlist_folder_id(i) == NativeEntry(i).id

(* The native call copies the name into the caller's buffer, cut to what   *)
(* the buffer holds with its terminating NUL.                              *)
sp_playlistcontainer_playlist_folder_name(i, buffer_size) ==
    LET bs == to_bytes(NativeEntry(i).name)
        n  == IF Len(bs) < buffer_size THEN Len(bs) ELSE buffer_size - 1
    IN  SubSeq(bs, 1, n) \o <<0>>

(* utils.get_with_fixed_buffer: a zeroed char[buffer_length] handed to the *)
(* native call, then decoded.                                              *)
get_with_fixed_buffer(buffer_length, i) ==
    to_unicode(sp_playlistcontainer_playlist_folder_name(i, buffer_length))

FolderNameBufferLength == 100

----------------------------------------------------------------------------
(* PlaylistContainer.__len__ and __getitem__ *)

PlaylistContainer__len__ ==
    LET length == sp_playlistcontainer_num_playlists
    IN  IF length = -1 THEN 0 ELSE length

IndexInRangeInclusive(key) == 0 <= key /\ key <= PlaylistContainer__len__

IndexInRange(key) == 0 <= key /\ key < PlaylistContainer__len__

Keys == {[isint |-> TRUE, v |-> i] : i \in -2..MaxKey}
        \cup {[isint |-> FALSE, v |-> 0]}

NoFolder == [id |-> 0, name |-> <<>>, type |-> -1]

PlaylistFolder(i, n, t) == [id |-> i, name |-> n, type |-> t]

GetItemAddRefFalse == FALSE

(* The add_ref argument __getitem__ gives the Playlist it builds. *)
GetItemAddRef == TRUE

Outcome(kind, reads, sp, folder) ==
    [kind |-> kind, reads |-> reads, sp |-> sp, folder |-> folder]

(* What __getitem__ does before it builds its return value: the exception  *)
(* it raises or the variant it decodes, and the native accessors it calls. *)
DecodeEntry(key) ==
    IF ~key.isint THEN Outcome("TypeError", {}, None, NoFolder)
    ELSE IF ~IndexInRange(key.v)
    THEN Outcome("IndexError", {"num_playlists"}, None, NoFolder)
    ELSE LET playlist_type == sp_playlistcontainer_playlist_type(key.v) IN
         IF playlist_type = PLAYLIST
         THEN Outcome("Playlist", {"num_playlists", "playlist_type", "playlist"},
                      sp_playlistcontainer_playlist(key.v), NoFolder)
         ELSE IF playlist_type \in {START_FOLDER, END_FOLDER}
         THEN LET name == get_with_fixed_buffer(FolderNameBufferLength, key.v)
                  reads == {"num_playlists", "playlist_type",
                            "playlist_folder_id", "playlist_folder_name"}
              IN  IF name.ok
                  THEN Outcome("PlaylistFolder", reads, None,
                               PlaylistFolder(
                                   sp_playlistcontainer_playlist_folder_id(key.v),
                                   name.text, playlist_type))
                  ELSE Outcome("UnicodeDecodeError", reads, None, NoFolder)
         ELSE Outcome("RuntimeError", {"num_playlists", "playlist_type"},
                      None, NoFolder)


----------------------------------------------------------------------------
(* Playlist.__init__, PlaylistContainer.__init__ and the ffi.gc release.   *)

Uris == {"spotify:playlist:p1", "spotify:playlist:p2", "spotify:playlist:bad"}

(* spotify.Link(uri).as_playlist(): the native playlist a Playlist object  *)
(* for the URI wraps, or None.                                             *)
as_playlist(uri) ==
    IF uri = "spotify:playlist:p1" THEN "p1"
    ELSE IF uri = "spotify:playlist:p2" THEN "p2"
    ELSE None

(* The native count of an object: at zero the library frees the object,  *)
(* and the count of a freed object stays zero.                             *)
sp_add_ref(count) == IF count = 0 THEN 0 ELSE count + 1

sp_release(count) == IF count = 0 THEN 0 ELSE count - 1

AddRefAlways(count, add_ref) == sp_add_ref(count)

(* if add_ref: lib.sp_playlist_add_ref(sp_playlist) *)
AddRef(count, add_ref) == IF add_ref THEN sp_add_ref(count) ELSE count

(* The ffi.gc destructors of a collected object: one release each. *)
RECURSIVE Release(_, _)
Release(count, releases) ==
    IF releases = 0 THEN count ELSE Release(sp_release(count), releases - 1)

Raised(op, kind) ==
    /\ result' = [op |-> op, kind |-> kind]
    /\ UNCHANGED <<refcount, owned, wrappers, misuse, native_pc>>

(* A new wrapper on sp.  temp is the reference of the Playlist that        *)
(* as_playlist returned: its cdata is the argument of this object's ffi.gc *)
(* destructor, so it lives, and is released, with this object.  transfer   *)
(* says that the caller hands over a reference it owns.                    *)
Wrap(cls, sp, add_ref, temp, transfer) ==
    /\ LiveCount < MaxWrappers
    /\ refcount' = [refcount EXCEPT
                       ![sp] = AddRef(IF temp = 1 THEN sp_add_ref(@) ELSE @, add_ref)]
    /\ wrappers' = [wrappers EXCEPT
                       ![[cls |-> cls, ptr |-> sp, releases |-> 1 + temp]] = @ + 1]
    /\ owned' = IF transfer THEN [owned EXCEPT ![sp] = @ - 1] ELSE owned
    /\ (~add_ref /\ ~transfer) => misuse < MaxMisuse
    /\ misuse' = IF ~add_ref /\ ~transfer THEN misuse + 1 ELSE misuse
    /\ result' = [op |-> cls, kind |-> cls, ptr |-> sp,
                  add_ref |-> add_ref, transfer |-> transfer]
    /\ UNCHANGED native_pc

Playlist__init__(uri, sp_playlist, add_ref, transfer) ==
    /\ transfer => (uri = None /\ sp_playlist # None /\ ~add_ref
                    /\ owned[sp_playlist] > 0)
    /\ IF uri = None /\ sp_playlist = None
       THEN Raised("Playlist", "AssertionError")
       ELSE IF uri # None
       THEN IF as_playlist(uri) = None
            THEN Raised("Playlist", "ValueError")
            ELSE Wrap("Playlist", as_playlist(uri), TRUE, 1, FALSE)
       ELSE Wrap("Playlist", sp_playlist, add_ref, 0, transfer)

PlaylistContainer__init__(sp_playlistcontainer, add_ref, transfer) ==
    /\ transfer => (~add_ref /\ owned[sp_playlistcontainer] > 0)
    /\ Wrap("PlaylistContainer", sp_playlistcontainer, add_ref, 0, transfer)

(* An object of kind k is garbage collected: its ffi.gc destructors run. *)
Destroy(k) ==
    /\ wrappers[k] > 0
    /\ refcount' = [refcount EXCEPT ![k.ptr] = Release(@, k.releases)]
    /\ wrappers' = [wrappers EXCEPT ![k] = @ - 1]
    /\ result' = [op |-> "destroy", kind |-> k]
    /\ UNCHANGED <<owned, misuse, native_pc>>

(* What the caller of __getitem__ gets, with the native count and the     *)
(* number of wrappers of the returned playlist as they were before.        *)
GetItemResult(key, e, before, live) ==
    [op |-> "getitem", key |-> key, kind |-> e.kind, reads |-> e.reads,
     sp |-> e.sp, folder |-> e.folder, before |-> before, live |-> live]

(* PlaylistContainer.__getitem__ on a live container object. *)
PlaylistContainer__getitem__(key) ==
    /\ \E k \in Kinds : k.cls = "PlaylistContainer" /\ wrappers[k] > 0
    /\ LET e == DecodeEntry(key) IN
       IF e.kind = "Playlist"
       THEN /\ LiveCount < MaxWrappers
            /\ refcount' = [refcount EXCEPT ![e.sp] = AddRef(@, GetItemAddRef)]
            /\ wrappers' = [wrappers EXCEPT
                               ![[cls |-> "Playlist", ptr |-> e.sp, releases |-> 1]]
                                   = @ + 1]
            /\ misuse' = IF GetItemAddRef THEN misuse ELSE misuse + 1
            /\ result' = GetItemResult(key, e, refcount[e.sp], LiveOn(e.sp))
            /\ UNCHANGED <<owned, native_pc>>
       ELSE /\ result' = GetItemResult(key, e, 0, 0)
            /\ UNCHANGED <<refcount, owned, wrappers, misuse, native_pc>>

(* The application gets a reference of its own from a native call that     *)
(* returns one (sp_playlist_create, ...), or gives one back.               *)
NativeCreate(o) ==
    /\ Sum(owned, NativeObjs) < MaxOwned
    /\ refcount' = [refcount EXCEPT ![o] = sp_add_ref(@)]
    /\ owned' = [owned EXCEPT ![o] = @ + 1]
    /\ result' = NoResult
    /\ UNCHANGED <<wrappers, misuse, native_pc>>

NativeRelease(o) ==
    /\ owned[o] > 0
    /\ refcount' = [refcount EXCEPT ![o] = sp_release(@)]
    /\ owned' = [owned EXCEPT ![o] = @ - 1]
    /\ result' = NoResult
    /\ UNCHANGED <<wrappers, misuse, native_pc>>

(* The native container changes between two calls. *)
NativeUpdate ==
    /\ native_pc' \in NativeContainers \ {native_pc}
    /\ result' = NoResult
    /\ UNCHANGED <<refcount, owned, wrappers, misuse>>

----------------------------------------------------------------------------
(* load(): Playlist.load and PlaylistContainer.load hand the object and    *)
(* the timeout to utils.load, which waits on the process-wide condition    *)
(* that the callback thread signals after a metadata update.               *)

Threads == {"t1", "t2"}

LoadObjs == {"p1", Container}

(* load(timeout=None): no timeout. *)
NoTimeout == -1

Timeouts == {NoTimeout} \cup (1..MaxTimeout)

bool(x) == x # 0

Playlist_is_loaded_OtherObject(sp) == bool(loaded[Container])

Playlist_is_loaded_Always(sp) == TRUE

(* Playlist.is_loaded: bool(lib.sp_playlist_is_loaded(self._sp_playlist)) *)
Playlist_is_loaded(sp) == bool(loaded[sp])

(* PlaylistContainer.is_loaded *)
PlaylistContainer_is_loaded(sp) == bool(loaded[sp])

is_loaded(obj) ==
    IF obj = Container THEN PlaylistContainer_is_loaded(obj)
    ELSE Playlist_is_loaded(obj)

Idle ==
    [pc |-> "idle", obj |-> None, timeout |-> NoTimeout, start |-> 0,
     deadline |-> NoTimeout, at_entry |-> FALSE, wake |-> "none",
     ret |-> None]

(* utils.load(obj, timeout) is entered: the deadline is computed once,     *)
(* from the clock at entry.                                                *)
utils_load(obj, timeout) ==
    [Idle EXCEPT !.pc = "acquire", !.obj = obj,
                 !.deadline = IF timeout = NoTimeout THEN NoTimeout
                              ELSE now + timeout]

(* The caller's view of the call: the timeout it asked for, the clock     *)
(* when it called with a timeout, and the native flag when it called.      *)
Call(t, obj, timeout, call) ==
    /\ th[t].pc = "idle"
    /\ timeout # NoTimeout => now + timeout <= MaxTime
    /\ th' = [th EXCEPT ![t] = [call EXCEPT !.timeout = timeout,
                                            !.start = IF timeout = NoTimeout
                                                      THEN 0 ELSE now,
                                            !.at_entry = (loaded[obj] = 1)]]
    /\ UNCHANGED <<loaded, now, lock, cb>>
    /\ UNCHANGED <<varsHandle, native_pl>>

Playlist_load_TimeoutDropped(t, sp, timeout) ==
    Call(t, sp, timeout, utils_load(sp, NoTimeout))

(* Playlist.load: return utils.load(self, timeout=timeout) *)
Playlist_load(t, sp, timeout) ==
    Call(t, sp, timeout, utils_load(sp, timeout))

(* PlaylistContainer.load *)
PlaylistContainer_load(t, sp, timeout) ==
    Call(t, sp, timeout, utils_load(sp, timeout))

Expired(t) == th[t].deadline # NoTimeout /\ now >= th[t].deadline

(* The thread takes the lock of the condition. *)
Acquire(t) ==
    /\ th[t].pc = "acquire"
    /\ lock = None
    /\ lock' = t
    /\ th' = [th EXCEPT ![t].pc = "checking"]
    /\ UNCHANGED <<loaded, now, cb>>
    /\ UNCHANGED <<varsHandle, native_pl>>

(* CHECKING: loaded, return the object (and give the lock up); not       *)
(* loaded, go on to wait.                                                  *)
Check(t) ==
    /\ th[t].pc = "checking"
    /\ lock = t
    /\ IF is_loaded(th[t].obj)
       THEN /\ th' = [th EXCEPT ![t].pc = "done", ![t].ret = th[t].obj]
            /\ lock' = None
       ELSE /\ th' = [th EXCEPT ![t].pc = "wait"]
            /\ lock' = lock
    /\ UNCHANGED <<loaded, now, cb>>
    /\ UNCHANGED <<varsHandle, native_pl>>

(* The wait on the condition begins: it gives the lock up. *)
Wait(t) ==
    /\ th[t].pc = "wait"
    /\ lock = t
    /\ lock' = None
    /\ th' = [th EXCEPT ![t].pc = "waiting", ![t].wake = "none"]
    /\ UNCHANGED <<loaded, now, cb>>
    /\ UNCHANGED <<varsHandle, native_pl>>

(* WAITING -> CHECKING: the wait returns with the lock, after a signal or  *)
(* a spurious wake before the deadline, or at the deadline with the object *)
(* loaded.                                                                 *)
WaitReturn(t) ==
    /\ th[t].pc = "waiting"
    /\ lock = None
    /\ \/ th[t].wake # "none" /\ ~Expired(t)
       \/ Expired(t) /\ is_loaded(th[t].obj)
    /\ lock' = t
    /\ th' = [th EXCEPT ![t].pc = "checking"]
    /\ UNCHANGED <<loaded, now, cb>>
    /\ UNCHANGED <<varsHandle, native_pl>>

(* WAITING -> TIMED_OUT: the deadline has passed and the object is still   *)
(* not loaded.                                                             *)
TimedOut(t) ==
    /\ th[t].pc = "waiting"
    /\ lock = None
    /\ Expired(t)
    /\ ~is_loaded(th[t].obj)
    /\ th' = [th EXCEPT ![t].pc = "timedout"]
    /\ UNCHANGED <<loaded, now, lock, cb>>
    /\ UNCHANGED <<varsHandle, native_pl>>

(* A wait may return with no signal. *)
SpuriousWake(t) ==
    /\ th[t].pc = "waiting"
    /\ th[t].wake = "none"
    /\ ~Expired(t)
    /\ th' = [th EXCEPT ![t].wake = "spurious"]
    /\ UNCHANGED <<loaded, now, lock, cb>>
    /\ UNCHANGED <<varsHandle, native_pl>>

(* The caller has its answer (the object, or Timeout). *)
Return(t) ==
    /\ th[t].pc \in {"done", "timedout"}
    /\ th' = [th EXCEPT ![t] = Idle]
    /\ UNCHANGED <<loaded, now, lock, cb>>
    /\ UNCHANGED <<varsHandle, native_pl>>

(* The native library updates metadata on its own thread: object o becomes *)
(* loaded (None: an update that loads nothing); its callback then signals  *)
(* the condition.                                                          *)
MetadataUpdated(o) ==
    /\ cb = "idle"
    /\ cb' = "signal"
    /\ loaded' = IF o = None THEN loaded ELSE [loaded EXCEPT ![o] = 1]
    /\ UNCHANGED <<now, lock, th>>
    /\ UNCHANGED <<varsHandle, native_pl>>

(* notify_all under the lock: every waiting thread is woken. *)
Signal ==
    /\ cb = "signal"
    /\ lock = None
    /\ cb' = "idle"
    /\ th' = [t \in Threads |->
                 IF th[t].pc = "waiting" THEN [th[t] EXCEPT !.wake = "notify"]
                 ELSE th[t]]
    /\ UNCHANGED <<loaded, now, lock>>
    /\ UNCHANGED <<varsHandle, native_pl>>

Tick ==
    /\ now < MaxTime
    /\ now' = now + 1
    /\ UNCHANGED <<loaded, lock, cb, th>>
    /\ UNCHANGED <<varsHandle, native_pl>>

----------------------------------------------------------------------------
(* The attributes of a Playlist: name, and the setters that hand the       *)
(* native status to spotify.Error.maybe_raise.                             *)

SP_ERROR_OK == 0

DOWNLOADING == 2

StatusCodes == 0..MaxStatus

Names == {<<>>, <<65>>, <<233>>, <<8364, 65>>, <<65, 0, 66>>, <<0>>}

Progress == {0, 50, 100}

int(b) == IF b THEN 1 ELSE 0

(* Error.maybe_raise(error_code): nothing on OK, else raise Error(code). *)
maybe_raise(error_code) ==
    IF error_code = SP_ERROR_OK
    THEN [kind |-> "ok", error_code |-> SP_ERROR_OK]
    ELSE [kind |-> "Error", error_code |-> error_code]

(* A native setter stores what it is given when it answers OK. *)
NativeSet(field, value, status) ==
    IF status = SP_ERROR_OK THEN [native_pl EXCEPT ![field] = value]
    ELSE native_pl

(* The outcome of an operation on the playlist's attributes: what was      *)
(* raised, the native calls made and the status the last of them gave.     *)
AttrResult(op, arg, raised, calls, status) ==
    [op |-> op, arg |-> arg, kind |-> raised.kind,
     error_code |-> raised.error_code, calls |-> calls, status |-> status]

(* spotify.Error.maybe_raise(lib.sp_playlist_<setter>(...)) *)
Setter(op, arg, native, field, value, status) ==
    /\ native_pl' = NativeSet(field, value, status)
    /\ result' = AttrResult(op, arg, maybe_raise(status), <<native>>, status)
    /\ UNCHANGED <<refcount, owned, wrappers, misuse, native_pc>>

SetterSwallow(op, arg, native, field, value, status) ==
    /\ native_pl' = NativeSet(field, value, status)
    /\ result' = AttrResult(op, arg, maybe_raise(SP_ERROR_OK), <<native>>, status)
    /\ UNCHANGED <<refcount, owned, wrappers, misuse, native_pc>>

(* Playlist.rename: the name as a NUL-terminated char[] of its UTF-8       *)
(* bytes; the native call reads it as a C string.                          *)
rename(op, new_name, status) ==
    Setter(op, new_name, "sp_playlist_rename", "name",
           ffi_string(ffi_new_chars(to_bytes(new_name))), status)

Playlist_rename(new_name, status) == rename("rename", new_name, status)

(* name.setter: self.rename(new_name) *)
Playlist_name_setter(new_name, status) == rename("name=", new_name, status)

NoneValue == [none |-> TRUE, value |-> <<>>]

Some(v) == [none |-> FALSE, value |-> v]

Playlist_name_NoNone == Some(to_unicode(native_pl.name \o <<0>>).text)

(* Playlist.name: the native C string decoded; None when it is empty. *)
Playlist_name ==
    LET name == to_unicode(native_pl.name \o <<0>>).text
    IN  IF name # <<>> THEN Some(name) ELSE NoneValue

Playlist_set_collaborative_Swallow(value, status) ==
    SetterSwallow("set_collaborative", value, "sp_playlist_set_collaborative",
                  "collaborative", int(value), status)

Playlist_set_collaborative(value, status) ==
    Setter("set_collaborative", value, "sp_playlist_set_collaborative",
           "collaborative", int(value), status)

Playlist_set_autolink_tracks(link, status) ==
    Setter("set_autolink_tracks", link, "sp_playlist_set_autolink_tracks",
           "autolink_tracks", int(link), status)

Playlist_set_in_ram(value, status) ==
    Setter("set_in_ram", value, "sp_playlist_set_in_ram",
           "in_ram", int(value), status)

Playlist_set_offline_mode(offline, status) ==
    Setter("set_offline_mode", offline, "sp_playlist_set_offline_mode",
           "offline_mode", int(offline), status)

(* Playlist.offline_status *)
Playlist_offline_status == native_pl.offline_status

(* Playlist.offline_download_completed *)
Playlist_offline_download_completed ==
    IF Playlist_offline_status # DOWNLOADING THEN NoneValue
    ELSE Some(native_pl.offline_download_completed)

(* The application reads offline_download_completed. *)
ReadOfflineDownloadCompleted ==
    /\ result' = [op |-> "offline_download_completed",
                  value |-> Playlist_offline_download_completed]
    /\ UNCHANGED <<refcount, owned, wrappers, misuse, native_pc, native_pl>>

(* The application reads name. *)
ReadName ==
    /\ result' = [op |-> "name", value |-> Playlist_name]
    /\ UNCHANGED <<refcount, owned, wrappers, misuse, native_pc, native_pl>>

(* The native library moves on with the offline synchronisation. *)
NativeOffline(status, completed) ==
    /\ <<status, completed>> #
           <<native_pl.offline_status, native_pl.offline_download_completed>>
    /\ native_pl' = [native_pl EXCEPT !.offline_status = status,
                                      !.offline_download_completed = completed]
    /\ result' = NoResult
    /\ UNCHANGED <<refcount, owned, wrappers, misuse, native_pc>>

----------------------------------------------------------------------------
(* The specifications. *)

InitHandle ==
    /\ refcount = [o \in NativeObjs |-> NativeRefs]
    /\ owned = [o \in NativeObjs |-> 0]
    /\ wrappers = [k \in Kinds |-> 0]
    /\ misuse = 0
    /\ result = NoResult
    /\ native_pl = [name |-> <<>>, collaborative |-> 0, autolink_tracks |-> 0,
                    in_ram |-> 0, offline_mode |-> 0, offline_status |-> 0,
                    offline_download_completed |-> 0]

QuietLoad ==
    /\ loaded = [o \in LoadObjs |-> 0]
    /\ now = 0
    /\ lock = None
    /\ cb = "idle"
    /\ th = [t \in Threads |-> Idle]

Init ==
    /\ InitHandle
    /\ native_pc = Known(Scenario)
    /\ QuietLoad

Next ==
    /\ \/ \E uri \in Uris \cup {None}, sp \in Playlists \cup {None},
             add_ref \in BOOLEAN, transfer \in BOOLEAN :
             Playlist__init__(uri, sp, add_ref, transfer)
       \/ \E add_ref \in BOOLEAN, transfer \in BOOLEAN :
             PlaylistContainer__init__(Container, add_ref, transfer)
       \/ \E k \in Kinds : Destroy(k)
       \/ \E key \in Keys : PlaylistContainer__getitem__(key)
       \/ \E o \in NativeObjs : NativeCreate(o)
       \/ \E o \in NativeObjs : NativeRelease(o)
    /\ UNCHANGED varsLoad
    /\ UNCHANGED native_pl

Spec == Init /\ [][Next]_vars

(* Container indexing while the native container changes: the application  *)
(* holds container objects built with add_ref=True and the Playlist        *)
(* objects indexing returned.                                              *)
InitIndex ==
    /\ InitHandle
    /\ native_pc \in NativeContainers
    /\ QuietLoad

NextIndex ==
    /\ \/ PlaylistContainer__init__(Container, TRUE, FALSE)
       \/ \E k \in Kinds : Destroy(k)
       \/ \E key \in Keys : PlaylistContainer__getitem__(key)
       \/ NativeUpdate
    /\ UNCHANGED varsLoad
    /\ UNCHANGED native_pl

SpecIndex == InitIndex /\ [][NextIndex]_vars

(* load() calls of the application threads, the callback thread and the    *)
(* clock.                                                                  *)
NextLoad ==
    \/ \E t \in Threads, timeout \in Timeouts : Playlist_load(t, "p1", timeout)
    \/ \E t \in Threads, timeout \in Timeouts :
          PlaylistContainer_load(t, Container, timeout)
    \/ \E t \in Threads : Acquire(t)
    \/ \E t \in Threads : Check(t)
    \/ \E t \in Threads : Wait(t)
    \/ \E t \in Threads : WaitReturn(t)
    \/ \E t \in Threads : TimedOut(t)
    \/ \E t \in Threads : SpuriousWake(t)
    \/ \E t \in Threads : Return(t)
    \/ \E o \in LoadObjs \cup {None} : MetadataUpdated(o)
    \/ Signal
    \/ Tick

SpecLoad == Init /\ [][NextLoad]_vars

(* The lock is fair, a thread that can run does, the callback signals the  *)
(* condition, and the clock advances.                                      *)
LiveLoad ==
    /\ SpecLoad
    /\ \A t \in Threads :
          /\ SF_vars(Acquire(t))
          /\ WF_vars(Check(t))
          /\ WF_vars(Wait(t))
          /\ SF_vars(WaitReturn(t))
          /\ SF_vars(TimedOut(t))
    /\ SF_vars(Signal)
    /\ WF_vars(Tick)

(* The attributes of one playlist, read and written by the application   *)
(* while the native library answers with any status.                       *)
NextAttr ==
    /\ \/ \E n \in Names, status \in StatusCodes : Playlist_rename(n, status)
       \/ \E n \in Names, status \in StatusCodes : Playlist_name_setter(n, status)
       \/ \E v \in BOOLEAN, status \in StatusCodes :
             Playlist_set_collaborative(v, status)
       \/ \E v \in BOOLEAN, status \in StatusCodes :
             Playlist_set_autolink_tracks(v, status)
       \/ \E v \in BOOLEAN, status \in StatusCodes : Playlist_set_in_ram(v, status)
       \/ \E v \in BOOLEAN, status \in StatusCodes :
             Playlist_set_offline_mode(v, status)
       \/ ReadName
       \/ ReadOfflineDownloadCompleted
       \/ \E status \in 0..MaxOffline, completed \in Progress :
             NativeOffline(status, completed)
    /\ UNCHANGED varsLoad

SpecAttr == Init /\ [][NextAttr]_vars

----------------------------------------------------------------------------
(* Reference counts (Spec) *)

(* C1, as stated: for every sequence of constructions (with add_ref true   *)
(* or false, from a URI, by container indexing) and destructions, the      *)
(* native count of an object is never lower than the number of live        *)
(* wrappers aliasing it, and once the last wrapper is destroyed the        *)
(* wrappers have contributed exactly zero to it.                           *)
C1_AnyConstruction ==
    \A o \in NativeObjs :
        /\ refcount[o] >= LiveOn(o)
        /\ LiveOn(o) = 0 => refcount[o] = NativeRefs + owned[o]

(* C1, amended: as long as every add_ref=False construction was handed a   *)
(* reference its caller owned, the native count of an object is what the   *)
(* library and the application hold plus exactly the references the live   *)
(* wrappers will release; so it is never lower than the number of live     *)
(* wrappers, and the wrappers' share is zero once the last is destroyed.   *)
C1_OwnedTransfers ==
    misuse = 0 =>
        \A o \in NativeObjs :
            /\ refcount[o] = NativeRefs + owned[o] + HeldOn(o)
            /\ refcount[o] >= LiveOn(o)
            /\ LiveOn(o) = 0 => refcount[o] = NativeRefs + owned[o]

(* A Playlist has just been built with add_ref=False from a reference    *)
(* its caller owned, beside a live Playlist built from a URI and one more  *)
(* on the same native playlist.                                            *)
C1_Witness ==
    /\ misuse = 0
    /\ result.op = "Playlist"
    /\ result.kind = "Playlist"
    /\ result.ptr = "p1"
    /\ ~result.add_ref
    /\ result.transfer
    /\ wrappers[[cls |-> "Playlist", ptr |-> "p1", releases |-> 2]] = 1
    /\ LiveOn("p1") = 3

----------------------------------------------------------------------------
(* Container indexing (SpecIndex) *)

(* C5: the length is the native length with -1 read as 0, and indexing     *)
(* with an integer below 0 or at or above that length raises IndexError    *)
(* after the length query alone, with no read of a tag, id, name or        *)
(* pointer.                                                                *)
C5_IndexOutOfRange ==
    /\ native_pc.num = -1 => PlaylistContainer__len__ = 0
    /\ native_pc.num >= 0 => PlaylistContainer__len__ = native_pc.num
    /\ (/\ result.op = "getitem"
        /\ result.key.isint
        /\ \/ result.key.v < 0
           \/ result.key.v >= (IF native_pc.num = -1 THEN 0 ELSE native_pc.num))
       => (result.kind = "IndexError" /\ result.reads = {"num_playlists"})

(* Index 0 has just been refused on a container that reports -1 while it   *)
(* holds entries.                                                          *)
C5_Witness ==
    /\ result.op = "getitem"
    /\ result.key = [isint |-> TRUE, v |-> 0]
    /\ result.kind = "IndexError"
    /\ native_pc.num = -1
    /\ native_pc.entries # <<>>

ValidIndex ==
    /\ result.op = "getitem"
    /\ result.key.isint
    /\ 0 <= result.key.v
    /\ result.key.v < native_pc.num

IndexedEntry == native_pc.entries[result.key.v + 1]

DecodedItem ==
    IndexedEntry.type = PLAYLIST =>
        /\ result.kind = "Playlist"
        /\ result.sp = IndexedEntry.ptr
        /\ wrappers[[cls |-> "Playlist", ptr |-> result.sp, releases |-> 1]] >= 1
        /\ LiveOn(result.sp) = result.live + 1
        /\ refcount[result.sp] = result.before + 1
        /\ result.reads = {"num_playlists", "playlist_type", "playlist"}

DecodedOther ==
    IndexedEntry.type \notin {PLAYLIST, START_FOLDER, END_FOLDER} =>
        /\ result.kind = "RuntimeError"
        /\ result.reads = {"num_playlists", "playlist_type"}

DecodedFolder ==
    /\ result.kind = "PlaylistFolder"
    /\ result.folder = [id |-> IndexedEntry.id, name |-> IndexedEntry.name,
                        type |-> IndexedEntry.type]
    /\ "playlist" \notin result.reads

----------------------------------------------------------------------------
(* load() (SpecLoad, LiveLoad) *)

Active(t) == th[t].pc \in {"acquire", "checking", "wait", "waiting"}

ObjLoaded(t) == th[t].obj # None /\ loaded[th[t].obj] = 1

(* C2: whatever the object and the timeout, a load() called while the      *)
(* native flag is set never enters the waiting state and never times out,  *)
(* and what it returns is the object it was called on; this holds on every *)
(* call.                                                                   *)
C2_LoadedReturnsAtOnce ==
    \A t \in Threads :
        th[t].at_entry =>
            /\ th[t].pc \in {"acquire", "checking", "done"}
            /\ th[t].wake = "none"
            /\ th[t].pc = "done" => th[t].ret = th[t].obj

(* Both threads have returned from a load() of the loaded container, one   *)
(* called with no timeout and one, later, with a timeout.                  *)
C2_Witness ==
    /\ th["t1"].pc = "done" /\ th["t1"].at_entry /\ th["t1"].obj = Container
    /\ th["t1"].timeout = NoTimeout
    /\ th["t2"].pc = "done" /\ th["t2"].at_entry /\ th["t2"].obj = Container
    /\ th["t2"].timeout = 1
    /\ now > 0

(* C3, safety: a call that failed with Timeout was given a timeout T, did  *)
(* not return its object, and failed no earlier than T after entry.        *)
TimeoutNotEarly ==
    \A t \in Threads :
        th[t].pc = "timedout" =>
            /\ th[t].timeout # NoTimeout
            /\ now >= th[t].start + th[t].timeout
            /\ th[t].ret = None

(* C3, the deadline: it is the clock at entry plus T for the whole call,   *)
(* whatever wakes the call sees.                                           *)
DeadlineFixed ==
    \A t \in Threads :
        (th[t].pc # "idle" /\ th[t].timeout # NoTimeout) =>
            th[t].deadline = th[t].start + th[t].timeout

C4_TerminalEdges ==
    [][\A t \in Threads :
          /\ (th'[t].pc = "done" /\ th[t].pc # "done") =>
                 /\ th[t].pc = "checking"
                 /\ loaded[th[t].obj] = 1
                 /\ th'[t].ret = th[t].obj
          /\ (th'[t].pc = "timedout" /\ th[t].pc # "timedout") =>
                 /\ th[t].pc = "waiting"
                 /\ th[t].deadline # NoTimeout
                 /\ now >= th[t].deadline
          /\ (th[t].pc = "waiting" /\ th'[t].pc # "waiting") =>
                 th'[t].pc \in {"checking", "timedout"}
          /\ (th[t].pc \in {"done", "timedout"} /\ th'[t].pc # th[t].pc) =>
                 th'[t].pc = "idle"]_vars

(* A call is done after it waited and was woken by the signal. *)
C4_Witness ==
    /\ th["t1"].pc = "done"
    /\ th["t1"].wake = "notify"
    /\ th["t1"].ret = th["t1"].obj

(* C9: no notification is lost: a caller without timeout whose object is   *)
(* loaded gets its object, and a caller with a timeout gets its object or  *)
(* Timeout, however the callback's flag and signal interleave with the     *)
(* callers' checks and waits.                                              *)
C9_NoLostNotification ==
    \A t \in Threads :
        /\ (Active(t) /\ ObjLoaded(t) /\ th[t].timeout = NoTimeout)
               ~> (th[t].pc = "done")
        /\ (Active(t) /\ ObjLoaded(t))
               ~> (th[t].pc \in {"done", "timedout"})

(* Both threads wait without timeout on the same playlist, which is now    *)
(* loaded, and both have been woken by the signal.                         *)
C9_Witness ==
    \A t \in Threads :
        /\ th[t].pc = "waiting"
        /\ th[t].obj = "p1"
        /\ th[t].timeout = NoTimeout
        /\ th[t].wake = "notify"
        /\ loaded["p1"] = 1


----------------------------------------------------------------------------
(* Attributes (SpecAttr) *)

Renamed == result.op \in {"rename", "name="} /\ result.kind = "ok"

(* C6, as stated: whatever string V the name was just set to, reading name *)
(* gives V back.                                                           *)
C6_RoundTripAnyString ==
    Renamed => Playlist_name = Some(result.arg)

(* C6, amended: reading name gives V back when V is not empty and holds no *)
(* NUL character; the empty string reads back as None.                     *)
C6_RoundTripCString ==
    Renamed =>
        /\ (result.arg # <<>> /\ \A i \in DOMAIN result.arg : result.arg[i] # 0)
               => Playlist_name = Some(result.arg)
        /\ result.arg = <<>> => Playlist_name = NoneValue

(* The name has just been set to a string of a three-byte and a one-byte   *)
(* character.                                                              *)
C6_Witness ==
    /\ Renamed
    /\ result.op = "name="
    /\ result.arg = <<8364, 65>>
    /\ native_pl.name = <<226, 130, 172, 65>>

(* C8: offline_download_completed is a number from 0 to 100, and 0 when    *)
(* offline_status is not DOWNLOADING.                                      *)
C8_OfflineDownloadCompleted ==
    result.op = "offline_download_completed" =>
        /\ ~result.value.none
        /\ result.value.value \in 0..100
        /\ Playlist_offline_status # DOWNLOADING => result.value.value = 0

Setters ==
    [rename |-> "sp_playlist_rename",
     set_collaborative |-> "sp_playlist_set_collaborative",
     set_autolink_tracks |-> "sp_playlist_set_autolink_tracks",
     set_in_ram |-> "sp_playlist_set_in_ram",
     set_offline_mode |-> "sp_playlist_set_offline_mode"]

NativeSetterOf(op) == IF op = "name=" THEN Setters["rename"] ELSE Setters[op]

(* C10: a mutating operation calls its native setter once, returns         *)
(* normally when the status is OK and otherwise raises the Error of that   *)
(* status.                                                                 *)
C10_StatusPropagated ==
    result.op \in (DOMAIN Setters \cup {"name="}) =>
        /\ result.calls = <<NativeSetterOf(result.op)>>
        /\ result.status = SP_ERROR_OK => result.kind = "ok"
        /\ result.status # SP_ERROR_OK =>
               (result.kind = "Error" /\ result.error_code = result.status)

(* set_collaborative has just raised the Error of a native status. *)
C10_Witness ==
    /\ result.op = "set_collaborative"
    /\ result.kind = "Error"
    /\ result.error_code = MaxStatus
    /\ native_pl.collaborative = 1

====
